---------------------------- MODULE Spec2Model ----------------------------
(***************************************************************************)
(* EasyFlash, environment variables in wear leveling mode                  *)
(* (src/flash/src/flash_env_wl.c).                                         *)
(*                                                                         *)
(* The RAM cache and the flash are modelled byte by byte.  The cache is a  *)
(* sequence of bytes (C offset i is element i+1); word 0 of it is the      *)
(* detail part end address, word 1 (CRC builds only) the CRC32 code, both  *)
(* little endian.  Every API function is an operator from a machine state  *)
(* record to a machine state record; the actions apply them.               *)
(***************************************************************************)
EXTENDS Integers, Sequences, FiniteSets, TLC

(***************************************************************************)
(* Configuration handed to flash_env_init.                                 *)
(***************************************************************************)
WordBytes == 4
TotalWords == 12
EraseWords == 2
StartUnits == 2
HeapWords == 3

env_total_size == TotalWords * WordBytes
flash_erase_min_size == EraseWords * WordBytes
env_start_addr == StartUnits * flash_erase_min_size

NULL == -1

(***************************************************************************)
(* 32 bit words.  A uint32_t is held as the integer with the same bits in  *)
(* two's complement (0xFFFFFFFF is -1), so that sums and differences wrap  *)
(* as in C; the unsigned comparisons are ULt, UGt and UGe.                 *)
(***************************************************************************)
ERASED_WORD == -1
ULt(a, b) == IF (a >= 0) = (b >= 0) THEN a < b ELSE b < 0
UGt(a, b) == ULt(b, a)
UGe(a, b) == ~ULt(a, b)

\* FlashErrCode
FLASH_NO_ERR == "FLASH_NO_ERR"
FLASH_ERASE_ERR == "FLASH_ERASE_ERR"
FLASH_WRITE_ERR == "FLASH_WRITE_ERR"
FLASH_ENV_NAME_ERR == "FLASH_ENV_NAME_ERR"
FLASH_ENV_NAME_EXIST == "FLASH_ENV_NAME_EXIST"
FLASH_ENV_FULL == "FLASH_ENV_FULL"

\* characters: the string terminator, '=', and the byte of an erased flash cell
NUL == 0
CH_EQ == 61
ERASED_BYTE == 255

(***************************************************************************)
(* Parameters part layout (the enum at the head of the file).              *)
(***************************************************************************)
ENV_PARAM_PART_INDEX_END_ADDR == 0
ENV_PARAM_PART_INDEX_DATA_CRC == 1
ENV_PARAM_PART_WORD_SIZE(crc) == IF crc THEN 2 ELSE 1
ENV_PARAM_PART_BYTE_SIZE(crc) == ENV_PARAM_PART_WORD_SIZE(crc) * 4

(***************************************************************************)
(* Memory: bytes, little endian words, C strings.                          *)
(* The cache buffer has env_total_size bytes; the model carries HeapWords  *)
(* more words of the heap that follows it, so that an access past the      *)
(* buffer is seen.  Past the modelled heap a read yields NUL and a write   *)
(* is dropped.                                                             *)
(***************************************************************************)
MemBytes == env_total_size + HeapWords * WordBytes

\* a sequence given as a function, as a tuple
AsTuple(f) == f \o << >>

Peek(mem, i) == IF i >= 0 /\ i < Len(mem) THEN mem[i + 1] ELSE NUL

Poke(mem, i, bytes) ==
    AsTuple([j \in 1..Len(mem) |->
                IF j - 1 >= i /\ j - 1 < i + Len(bytes) THEN bytes[j - i] ELSE mem[j]])

WordToBytes(w) ==
    << w % 256, (w \div 256) % 256, (w \div 65536) % 256, (w \div 16777216) % 256 >>

BytesToWord(b) ==
    b[1] + 256 * b[2] + 65536 * b[3]
         + 16777216 * (IF b[4] >= 128 THEN b[4] - 256 ELSE b[4])

PeekWord(mem, i) ==
    BytesToWord(<< Peek(mem, i), Peek(mem, i + 1), Peek(mem, i + 2), Peek(mem, i + 3) >>)

PokeWord(mem, i, w) == Poke(mem, i, WordToBytes(w))

RECURSIVE strlen(_, _)
strlen(mem, p) == IF Peek(mem, p) = NUL THEN 0 ELSE 1 + strlen(mem, p + 1)

\* the C string at p, without its terminator
CStr(mem, p) == AsTuple([i \in 1..strlen(mem, p) |-> Peek(mem, p + i - 1)])

MatchAt(mem, q, key) == \A i \in 1..Len(key) : Peek(mem, q + i - 1) = key[i]

\* strstr(mem + p, key): offset of the first occurrence of key in the C string
\* at p, or NULL
strstr(mem, p, key) ==
    LET n == strlen(mem, p)
        hits == { q \in p..(p + n - Len(key)) : MatchAt(mem, q, key) }
    IN  IF hits = {} THEN NULL ELSE CHOOSE q \in hits : \A r \in hits : q <= r

StrHasChar(s, c) == \E i \in 1..Len(s) : s[i] = c

(***************************************************************************)
(* memcpy.  Source and destination of the copy in flash_del_env overlap,   *)
(* which the C standard leaves undefined: a library that copies with       *)
(* ascending addresses and one that copies with descending addresses give  *)
(* different results, and the model keeps both.                            *)
(***************************************************************************)
\* byte by byte from the last byte down: a byte already overwritten is read
\* again when src + i lies in the destination, so the last src - dst bytes of
\* the source come out repeated (dst < src)
CopyDescending(mem, dst, src, n) ==
    AsTuple([j \in 1..Len(mem) |->
                IF j - 1 >= dst /\ j - 1 < dst + n
                THEN Peek(mem, dst + n + ((j - 1 - dst - n) % (src - dst)))
                ELSE mem[j]])

\* byte by byte from the first byte up: every byte is read before it is
\* overwritten (dst < src)
CopyAscending(mem, dst, src, n) ==
    AsTuple([j \in 1..Len(mem) |->
                IF j - 1 >= dst /\ j - 1 < dst + n THEN Peek(mem, j - 1 + (src - dst))
                ELSE mem[j]])

memcpy(mem, dst, src, n, order) ==
    IF order = "descending" THEN CopyDescending(mem, dst, src, n)
    ELSE CopyAscending(mem, dst, src, n)

(***************************************************************************)
(* Accessors of the cached addresses.  A machine state m has the fields    *)
(*   crc    FLASH_ENV_USING_CRC_CHECK is defined                           *)
(*   order  the copy order of the C library's memcpy                       *)
(*   cache  env_cache and the heap after it                                *)
(*   cur    cur_using_data_addr                                            *)
(*   flash  the flash contents, by address                                 *)
(*   dev    results of the coming flash_erase / flash_write calls          *)
(*   halted the program has stopped in a hard fault                        *)
(***************************************************************************)
get_env_start_addr == env_start_addr
get_cur_using_data_addr(m) == m.cur
set_cur_using_data_addr(m, a) == [m EXCEPT !.cur = a]
get_env_detail_addr(m) == m.cur + ENV_PARAM_PART_BYTE_SIZE(m.crc)
get_env_detail_end_addr(m) == PeekWord(m.cache, ENV_PARAM_PART_INDEX_END_ADDR * 4)
set_env_detail_end_addr(m, a) ==
    [m EXCEPT !.cache = PokeWord(m.cache, ENV_PARAM_PART_INDEX_END_ADDR * 4, a)]
get_env_detail_size(m) == get_env_detail_end_addr(m) - get_env_detail_addr(m)
flash_get_env_total_size == env_total_size
flash_get_env_used_size(m) == get_env_detail_end_addr(m) - get_env_start_addr


(***************************************************************************)
(* A scan or a copy that leaves the modelled memory stops the program.     *)
(***************************************************************************)
WILD == -2
Halt(m) == [m EXCEPT !.halted = TRUE]
Ret(m, code) == [m EXCEPT !.ret = code]

Align4(n) == IF n % 4 /= 0 THEN (n \div 4 + 1) * 4 ELSE n

Zeros(n) == AsTuple([i \in 1..n |-> NUL])

(***************************************************************************)
(* write_env: append key=value\0, padded to a word, at the end of the      *)
(* detail part of the cache.                                               *)
(***************************************************************************)
write_env(m, key, value) ==
    LET env_str_length == Align4((Len(key) + Len(value) + 2) % 65536)
        env_str == key \o << CH_EQ >> \o value
                       \o Zeros(env_str_length - Len(key) - Len(value) - 1)
        at == ENV_PARAM_PART_BYTE_SIZE(m.crc) + get_env_detail_size(m)
    IN  IF UGe(env_str_length + get_env_detail_size(m), flash_get_env_total_size)
        THEN Ret(m, FLASH_ENV_FULL)
        ELSE Ret(set_env_detail_end_addr(
                    [m EXCEPT !.cache = Poke(m.cache, at, env_str),
                              !.overrun = m.overrun \/ at < 0
                                            \/ at + env_str_length > env_total_size],
                    get_env_detail_end_addr(m) + env_str_length),
                 FLASH_NO_ERR)

(***************************************************************************)
(* find_env: offset in the cache of the first string, scanning from the    *)
(* start of the detail part, in which key occurs followed by '='.          *)
(***************************************************************************)
RECURSIVE find_env_scan(_, _, _, _)
find_env_scan(mem, key, env, env_end) ==
    IF ~(env < env_end) THEN NULL
    ELSE IF env >= Len(mem) THEN WILD
    ELSE LET env_bak == strstr(mem, env, key)
         IN  IF env_bak /= NULL /\ Peek(mem, env_bak + Len(key)) = CH_EQ
             THEN env
             ELSE find_env_scan(mem, key, env + strlen(mem, env) + 1, env_end)

find_env(m, key) ==
    LET env_start == ENV_PARAM_PART_BYTE_SIZE(m.crc)
        env_end == ENV_PARAM_PART_BYTE_SIZE(m.crc) + get_env_detail_size(m)
    IN  IF key = << >> THEN NULL
        ELSE IF env_start = env_end THEN NULL
        ELSE find_env_scan(m.cache, key, env_start, env_end)

(***************************************************************************)
(* create_env                                                              *)
(***************************************************************************)
create_env(m, key, value) ==
    IF key = << >> THEN Ret(m, FLASH_ENV_NAME_ERR)
    ELSE IF StrHasChar(key, CH_EQ) THEN Ret(m, FLASH_ENV_NAME_ERR)
    ELSE LET found == find_env(m, key)
         IN  IF found = WILD THEN Halt(m)
             ELSE IF found /= NULL THEN Ret(m, FLASH_ENV_NAME_EXIST)
             ELSE write_env(m, key, value)

(***************************************************************************)
(* flash_del_env: the rest of the detail part is copied over the deleted   *)
(* string.  remain_env_length is the detail size less the offset of the    *)
(* string in the cache (an unsigned subtraction).                          *)
(***************************************************************************)
flash_del_env(m, key) ==
    IF key = << >> THEN Ret(m, FLASH_ENV_NAME_ERR)
    ELSE IF StrHasChar(key, CH_EQ) THEN Ret(m, FLASH_ENV_NAME_ERR)
    ELSE LET del_env_str == find_env(m, key)
             del_env_length == Align4(strlen(m.cache, del_env_str) + 1)
             remain_env_length == get_env_detail_size(m) - del_env_str
         IN  IF del_env_str = WILD THEN Halt(m)
             ELSE IF del_env_str = NULL THEN Ret(m, FLASH_ENV_NAME_ERR)
             ELSE IF UGt(remain_env_length, Len(m.cache)) THEN Halt(m)
             ELSE Ret(set_env_detail_end_addr(
                         [m EXCEPT !.cache = memcpy(m.cache, del_env_str,
                                                    del_env_str + del_env_length,
                                                    remain_env_length, m.order)],
                         get_env_detail_end_addr(m) - del_env_length),
                      FLASH_NO_ERR)

(***************************************************************************)
(* flash_set_env                                                           *)
(***************************************************************************)
\* a set that puts the old record back when the create fails, as a variant of
\* flash_set_env
flash_set_env_Restoring(m, key, value) ==
    IF value = << >> THEN flash_del_env(m, key)
    ELSE LET found == find_env(m, key)
             m1 == IF found = WILD THEN Halt(m)
                   ELSE IF found /= NULL THEN flash_del_env(m, key)
                   ELSE Ret(m, FLASH_NO_ERR)
             m2 == create_env(m1, key, value)
         IN  IF m1.halted THEN m1
             ELSE IF m1.ret = FLASH_NO_ERR
                  THEN IF m2.halted \/ m2.ret = FLASH_NO_ERR THEN m2 ELSE Ret(m, m2.ret)
             ELSE m1

flash_set_env(m, key, value) ==
    IF value = << >> THEN flash_del_env(m, key)
    ELSE LET found == find_env(m, key)
             m1 == IF found = WILD THEN Halt(m)
                   ELSE IF found /= NULL THEN flash_del_env(m, key)
                   ELSE Ret(m, FLASH_NO_ERR)
         IN  IF m1.halted THEN m1
             ELSE IF m1.ret = FLASH_NO_ERR THEN create_env(m1, key, value)
             ELSE m1

(***************************************************************************)
(* flash_get_env: the C string after the first '=' of the string found,    *)
(* or NOT_FOUND for a NULL return.                                         *)
(***************************************************************************)
NOT_FOUND == << NULL >>

flash_get_env(m, key) ==
    LET env_cache_addr == find_env(m, key)
        value == strstr(m.cache, env_cache_addr, << CH_EQ >>)
    IN  IF env_cache_addr = NULL \/ env_cache_addr = WILD THEN NOT_FOUND
        ELSE IF value /= NULL THEN CStr(m.cache, value + 1)
        ELSE NOT_FOUND

(***************************************************************************)
(* The flash device (flash_read, flash_erase, flash_write of the port).    *)
(* m.dev holds the results of the coming erase and write calls, in order;  *)
(* once it is used up every call succeeds.  An erase clears every erase    *)
(* unit the range touches; a call that faults leaves the flash as it was.  *)
(* m.log records the calls made.  The flash is modelled from the start of  *)
(* the environment area to one erase unit past its end; elsewhere a read   *)
(* yields erased bytes and a write is lost.                                *)
(***************************************************************************)
FlashBase == env_start_addr
FlashBytes == env_total_size + flash_erase_min_size

\* the byte at address a is element a - FlashBase + 1 of the flash
FlashByte(fl, a) ==
    IF a >= FlashBase /\ a < FlashBase + Len(fl) THEN fl[a - FlashBase + 1]
    ELSE ERASED_BYTE

flash_read(m, addr, size) == AsTuple([i \in 1..size |-> FlashByte(m.flash, addr + i - 1)])

DevFaults(m) == m.dev /= << >> /\ Head(m.dev) = "fault"
DevStep(m, call, addr, size, code) ==
    [m EXCEPT !.dev = IF m.dev = << >> THEN << >> ELSE Tail(m.dev),
              !.log = Append(m.log, [call |-> call, addr |-> addr, size |-> size,
                                     result |-> code]),
              !.ret = code]

EraseUnit(a) == a \div flash_erase_min_size

flash_erase(m, addr, size) ==
    IF DevFaults(m) THEN DevStep(m, "erase", addr, size, FLASH_ERASE_ERR)
    ELSE DevStep([m EXCEPT !.flash =
                      AsTuple([j \in 1..Len(m.flash) |->
                          IF size > 0 /\ EraseUnit(FlashBase + j - 1) >= EraseUnit(addr)
                                      /\ EraseUnit(FlashBase + j - 1)
                                            <= EraseUnit(addr + size - 1)
                          THEN ERASED_BYTE ELSE m.flash[j]])],
                 "erase", addr, size, FLASH_NO_ERR)

flash_write(m, addr, bytes) ==
    IF DevFaults(m) THEN DevStep(m, "write", addr, Len(bytes), FLASH_WRITE_ERR)
    ELSE DevStep([m EXCEPT !.flash = Poke(m.flash, addr - FlashBase, bytes)],
                 "write", addr, Len(bytes), FLASH_NO_ERR)

(***************************************************************************)
(* calc_crc32 (flash_utils): the table driven CRC-32 of polynomial         *)
(* 0xEDB88320, the value complemented on entry and on return, so that a    *)
(* call continues the CRC of the call before it.                           *)
(***************************************************************************)
RECURSIVE Xor(_, _)
Xor(a, b) ==
    IF a = 0 THEN b
    ELSE IF b = 0 THEN a
    ELSE (((a % 2) + (b % 2)) % 2) + 2 * Xor(a \div 2, b \div 2)

\* a CRC value is held as its two 16 bit halves, << high, low >>
CRC32_POLY == << 60856, 33568 >>
CRC32_ONES == << 65535, 65535 >>

Xor32(x, y) == << Xor(x[1], y[1]), Xor(x[2], y[2]) >>
Shr32(x, k) == << x[1] \div k, (x[2] \div k) + (x[1] % k) * (65536 \div k) >>
HalvesToWord(x) == (IF x[1] >= 32768 THEN x[1] - 65536 ELSE x[1]) * 65536 + x[2]
WordToHalves(w) == << (w \div 65536) % 65536, w % 65536 >>

RECURSIVE CrcBits(_, _)
CrcBits(c, k) ==
    IF k = 0 THEN c
    ELSE CrcBits(IF c[2] % 2 = 1 THEN Xor32(Shr32(c, 2), CRC32_POLY) ELSE Shr32(c, 2),
                 k - 1)

\* crc32_table[i + 1] is the table entry of byte i
crc32_table == AsTuple([i \in 1..256 |-> CrcBits(<< 0, i - 1 >>, 8)])

CrcByte(crc, byte) ==
    Xor32(crc32_table[Xor(crc[2] % 256, byte) + 1], Shr32(crc, 256))

\* the CRC register after the first n bytes of buf (the register after n - 1
\* bytes is computed first, then the table step of byte n is applied to it)
RECURSIVE CrcUpdate(_, _, _)
CrcUpdate(crc, buf, n) ==
    IF n = 0 THEN crc
    ELSE CHOOSE r \in { CrcByte(prev, buf[n]) : prev \in { CrcUpdate(crc, buf, n - 1) } } :
            TRUE

calc_crc32(crc, buf) ==
    HalvesToWord(Xor32(CrcUpdate(Xor32(WordToHalves(crc), CRC32_ONES), buf, Len(buf)),
                       CRC32_ONES))

CacheBytes(m, from, size) == AsTuple([i \in 1..size |-> Peek(m.cache, from + i - 1)])

calc_env_crc(m) ==
    calc_crc32(calc_crc32(0, CacheBytes(m, ENV_PARAM_PART_INDEX_END_ADDR * 4, 4)),
               CacheBytes(m, ENV_PARAM_PART_WORD_SIZE(m.crc) * 4, get_env_detail_size(m)))

env_crc_is_ok(m) ==
    calc_env_crc(m) = PeekWord(m.cache, ENV_PARAM_PART_INDEX_DATA_CRC * 4)

(***************************************************************************)
(* save_cur_using_data_addr: erase the system section word and write the   *)
(* address there.                                                          *)
(***************************************************************************)
save_cur_using_data_addr(m, cur_data_addr) ==
    LET e == flash_erase(m, get_env_start_addr, 4)
    IN  IF e.ret = FLASH_NO_ERR
        THEN flash_write(e, get_env_start_addr, WordToBytes(cur_data_addr))
        ELSE e

(***************************************************************************)
(* flash_save_env.  SaveLoop is the while loop: each pass stores the CRC   *)
(* in the cache (CRC builds), erases and writes at the current data        *)
(* section address, and on a fault moves that address and the detail end   *)
(* address on by move_offset_addr and goes round again.                    *)
(***************************************************************************)
SaveFits(m, env_detail_size) ==
    ULt(get_cur_using_data_addr(m) + env_detail_size,
        get_env_start_addr + flash_get_env_total_size)

\* the stride rounded up to whole erase units, as a variant of MoveOffset
MoveOffset_Ceil(env_detail_size) ==
    ((env_detail_size + flash_erase_min_size - 1) \div flash_erase_min_size)
        * flash_erase_min_size

\* the stride without the "+ 1", as a variant of MoveOffset
MoveOffset_Floor(env_detail_size) ==
    (env_detail_size \div flash_erase_min_size) * flash_erase_min_size

MoveOffset(env_detail_size) ==
    (env_detail_size \div flash_erase_min_size + 1) * flash_erase_min_size

\* a move of the data section address that leaves the detail end address
\* behind, as a variant of MoveOn
MoveOn_SlotOnly(m, env_detail_size) ==
    set_cur_using_data_addr(m, get_cur_using_data_addr(m) + MoveOffset(env_detail_size))

MoveOn(m, env_detail_size) ==
    set_env_detail_end_addr(
        set_cur_using_data_addr(m, get_cur_using_data_addr(m)
                                    + MoveOffset(env_detail_size)),
        get_env_detail_end_addr(m) + MoveOffset(env_detail_size))

StoreCrc(m) ==
    IF m.crc
    THEN [m EXCEPT !.cache = PokeWord(m.cache, ENV_PARAM_PART_INDEX_DATA_CRC * 4,
                                      calc_env_crc(m))]
    ELSE m

RECURSIVE SaveLoop(_, _)
SaveLoop(m, env_detail_size) ==
    IF ~SaveFits(m, env_detail_size) THEN m
    ELSE LET c == StoreCrc(m)
             e == flash_erase(c, get_cur_using_data_addr(c),
                              ENV_PARAM_PART_BYTE_SIZE(c.crc) + env_detail_size)
             w == flash_write(e, get_cur_using_data_addr(e),
                              CacheBytes(e, 0, ENV_PARAM_PART_BYTE_SIZE(e.crc)
                                                + env_detail_size))
         IN  IF e.ret = FLASH_ERASE_ERR THEN SaveLoop(MoveOn(e, env_detail_size),
                                                      env_detail_size)
             ELSE IF w.ret = FLASH_WRITE_ERR THEN SaveLoop(MoveOn(w, env_detail_size),
                                                           env_detail_size)
             ELSE w

\* variants of SaveFinish: one that reports the store full without clearing the
\* system section, one that returns what saving the address returned
SaveFinish_NoClear(m, env_detail_size, cur_data_addr_bak) ==
    IF SaveFits(m, env_detail_size)
    THEN IF get_cur_using_data_addr(m) /= cur_data_addr_bak
         THEN Ret(save_cur_using_data_addr(m, get_cur_using_data_addr(m)), m.ret)
         ELSE m
    ELSE Ret(m, FLASH_ENV_FULL)

SaveFinish_Result(m, env_detail_size, cur_data_addr_bak) ==
    IF SaveFits(m, env_detail_size)
    THEN IF get_cur_using_data_addr(m) /= cur_data_addr_bak
         THEN save_cur_using_data_addr(m, get_cur_using_data_addr(m))
         ELSE m
    ELSE Ret(save_cur_using_data_addr(m, ERASED_WORD), FLASH_ENV_FULL)

SaveFinish(m, env_detail_size, cur_data_addr_bak) ==
    IF SaveFits(m, env_detail_size)
    THEN IF get_cur_using_data_addr(m) /= cur_data_addr_bak
         THEN Ret(save_cur_using_data_addr(m, get_cur_using_data_addr(m)), m.ret)
         ELSE m
    ELSE Ret(save_cur_using_data_addr(m, ERASED_WORD), FLASH_ENV_FULL)

flash_save_env(m) ==
    LET cur_data_addr_bak == get_cur_using_data_addr(m)
        env_detail_size == get_env_detail_size(m)
    IN  IF UGt(env_detail_size, Len(m.cache)) THEN Halt(m)
        ELSE SaveFinish(SaveLoop(Ret(m, FLASH_NO_ERR), env_detail_size),
                        env_detail_size, cur_data_addr_bak)

(***************************************************************************)
(* flash_env_set_default: empty the detail part, create every default      *)
(* variable, save.                                                         *)
(***************************************************************************)
RECURSIVE CreateDefaults(_, _, _)
CreateDefaults(m, set, i) ==
    IF i > Len(set) \/ m.halted THEN m
    ELSE CreateDefaults(create_env(m, set[i].key, set[i].value), set, i + 1)

flash_env_set_default(m) ==
    LET d == CreateDefaults(set_env_detail_end_addr(m, get_env_detail_addr(m)),
                            m.defaults, 1)
    IN  IF d.halted THEN d
        ELSE Ret([flash_save_env(d) EXCEPT !.defaulted = TRUE], FLASH_NO_ERR)

(***************************************************************************)
(* flash_load_env.  The closing brace of the inner else, line 554, stands  *)
(* inside the #ifdef; the build without CRC is modelled with that brace    *)
(* kept.                                                                   *)
(***************************************************************************)
LoadDetail(m) ==
    IF UGt(get_env_detail_size(m), Len(m.cache)) THEN Halt(m)
    ELSE LET at == ENV_PARAM_PART_WORD_SIZE(m.crc) * 4
             r == [m EXCEPT
                     !.cache = Poke(m.cache, at,
                                    flash_read(m, get_env_detail_addr(m),
                                               get_env_detail_size(m))),
                     !.overrun = m.overrun
                                 \/ at + get_env_detail_size(m) > env_total_size]
             c == [r EXCEPT
                     !.cache = Poke(r.cache, ENV_PARAM_PART_INDEX_DATA_CRC * 4,
                                    flash_read(r, get_cur_using_data_addr(r)
                                                  + ENV_PARAM_PART_INDEX_DATA_CRC * 4, 4))]
         IN  IF ~m.crc THEN r
             ELSE IF ~env_crc_is_ok(c) THEN flash_env_set_default(c)
             ELSE c

flash_load_env(m) ==
    LET using_data_addr == BytesToWord(flash_read(m, get_env_start_addr, 4))
        u == set_cur_using_data_addr(m, using_data_addr)
        env_end_addr == BytesToWord(flash_read(u, get_cur_using_data_addr(u)
                                                  + ENV_PARAM_PART_INDEX_END_ADDR * 4, 4))
    IN  IF using_data_addr = ERASED_WORD
           \/ UGt(using_data_addr, env_start_addr + env_total_size)
        THEN LET i == set_cur_using_data_addr(m, get_env_start_addr + flash_erase_min_size)
             IN  flash_env_set_default(
                     save_cur_using_data_addr(i, get_cur_using_data_addr(i)))
        ELSE IF using_data_addr = 0 THEN Halt(u)
        ELSE IF UGt(env_end_addr, env_start_addr + env_total_size)
             THEN flash_env_set_default(u)
             ELSE LoadDetail(set_env_detail_end_addr(u, env_end_addr))

(***************************************************************************)
(* The records of the detail part, read as write_env lays them out: each   *)
(* is a C string key=value padded with NULs to a word.                     *)
(***************************************************************************)
RECURSIVE RecordsFrom(_, _, _)
RecordsFrom(mem, env, env_end) ==
    IF ~(env < env_end) \/ env >= Len(mem) THEN << >>
    ELSE LET str == CStr(mem, env)
             eq == CHOOSE i \in 1..(Len(str) + 1) :
                       /\ i = Len(str) + 1 \/ str[i] = CH_EQ
                       /\ \A j \in 1..(i - 1) : str[j] /= CH_EQ
         IN  << [key |-> SubSeq(str, 1, eq - 1), value |-> SubSeq(str, eq + 1, Len(str))] >>
                \o RecordsFrom(mem, env + Align4(Len(str) + 1), env_end)

Records(m) ==
    IF UGt(get_env_detail_size(m), Len(m.cache)) THEN << >>
    ELSE RecordsFrom(m.cache, ENV_PARAM_PART_BYTE_SIZE(m.crc),
                     ENV_PARAM_PART_BYTE_SIZE(m.crc) + get_env_detail_size(m))

(***************************************************************************)
(* The program state.                                                      *)
(***************************************************************************)
VARIABLES
    crc_check,            \* FLASH_ENV_USING_CRC_CHECK is defined in this build
    memcpy_order,         \* copy order of this build's memcpy
    default_env_set,      \* the default set handed to flash_env_init
    env_cache,            \* the RAM cache (and the heap after it)
    cur_using_data_addr,  \* current using data section address
    flash,                \* the flash contents
    halted,               \* the program stopped in a hard fault
    last,                 \* the last call: arguments, result, device calls, and
                          \* what was observable before it and before the call before
    ncalls                \* calls made since flash_env_init

vars == << crc_check, memcpy_order, default_env_set, env_cache, cur_using_data_addr,
           flash, halted, last, ncalls >>

MaxCalls == 3
MaxMediaCalls == 4
MaxDevFaults == 4

(***************************************************************************)
(* Inputs.  Keys "b" and "ab"; values "", "1", "b=1", "1111", "11111"      *)
(* (lengths 0, 1, 3, 4 and 5); "a" is looked up but never set.             *)
(***************************************************************************)
KEY_a == << 97 >>
KEY_b == << 98 >>
KEY_ab == << 97, 98 >>
Keys == { KEY_b, KEY_ab }
ProbeKeys == { KEY_a, KEY_b, KEY_ab }

VAL_1 == << 49 >>
VAL_2 == << 50 >>
Values == { << >>, VAL_1, << 98, CH_EQ, 49 >>, << 49, 49, 49, 49 >>,
            << 49, 49, 49, 49, 49 >> }

Env(k, v) == [key |-> k, value |-> v]

DefaultSets ==
    { << Env(KEY_b, VAL_2), Env(KEY_ab, VAL_1) >>,
      << Env(KEY_ab, VAL_1) >>,
      << Env(KEY_ab, VAL_1), Env(KEY_b, VAL_2) >> }

\* what malloc may hand out
UninitBytes == { NUL, ERASED_BYTE }

RECURSIVE DevSeqsOfLen(_)
DevSeqsOfLen(n) ==
    IF n = 0 THEN { << >> }
    ELSE { Append(d, r) : d \in DevSeqsOfLen(n - 1), r \in { "ok", "fault" } }

\* device results: the faults among the first MaxDevFaults erase and write calls
DevSeqs ==
    { d \in UNION { DevSeqsOfLen(n) : n \in 0..MaxDevFaults } :
        d = << >> \/ d[Len(d)] = "fault" }

\* a device that does not fault
Sound == { << >> }

Machine(dev) ==
    [crc |-> crc_check, order |-> memcpy_order, defaults |-> default_env_set,
     cache |-> env_cache, cur |-> cur_using_data_addr, flash |-> flash,
     dev |-> dev, log |-> << >>, ret |-> FLASH_NO_ERR, halted |-> FALSE,
     overrun |-> FALSE, defaulted |-> FALSE]

\* the system section word on the flash
SystemWord(fl) ==
    BytesToWord(<< FlashByte(fl, env_start_addr), FlashByte(fl, env_start_addr + 1),
                   FlashByte(fl, env_start_addr + 2), FlashByte(fl, env_start_addr + 3) >>)

GetAll(m) == [k \in ProbeKeys |-> flash_get_env(m, k)]

RecordKeys(m) == { Records(m)[i].key : i \in 1..Len(Records(m)) }

\* what a caller can observe of the program
Observe(m) ==
    [gets |-> GetAll(m), used |-> flash_get_env_used_size(m), records |-> Records(m),
     detail |-> get_env_detail_size(m), end |-> get_env_detail_end_addr(m),
     cur |-> get_cur_using_data_addr(m), system |-> SystemWord(m.flash)]

NoObserve ==
    [gets |-> [k \in ProbeKeys |-> NOT_FOUND], used |-> 0, records |-> << >>,
     detail |-> 0, end |-> 0, cur |-> 0, system |-> ERASED_WORD]

NoCall ==
    [op |-> "none", key |-> << >>, value |-> << >>, ret |-> FLASH_NO_ERR,
     log |-> << >>, defaulted |-> FALSE, overrun |-> FALSE, before |-> NoObserve]

Brief(call) ==
    [op |-> call.op, key |-> call.key, value |-> call.value, ret |-> call.ret,
     log |-> call.log, defaulted |-> call.defaulted, overrun |-> call.overrun,
     before |-> call.before]

Call(op, key, value, before, m) ==
    [op |-> op, key |-> key, value |-> value, ret |-> m.ret, log |-> m.log,
     defaulted |-> m.defaulted, overrun |-> m.overrun, before |-> Observe(before),
     prev |-> Brief(last)]

Commit(m, call) ==
    /\ env_cache' = m.cache
    /\ cur_using_data_addr' = m.cur
    /\ flash' = m.flash
    /\ halted' = m.halted
    /\ last' = call
    /\ ncalls' = IF call.op = "init" THEN 0 ELSE ncalls + 1
    /\ UNCHANGED << crc_check, memcpy_order, default_env_set >>

(***************************************************************************)
(* Power on: an erased flash, and the build and the configuration chosen.  *)
(***************************************************************************)
Init ==
    /\ crc_check \in BOOLEAN
    /\ memcpy_order \in { "ascending", "descending" }
    /\ default_env_set \in DefaultSets
    /\ env_cache = << >>
    /\ cur_using_data_addr = 0
    /\ flash = AsTuple([a \in 1..FlashBytes |-> ERASED_BYTE])
    /\ halted = FALSE
    /\ last = [NoCall EXCEPT !.op = "none"] @@ [prev |-> NoCall]
    /\ ncalls = 0

(***************************************************************************)
(* flash_env_init: the cache is allocated, with whatever bytes malloc      *)
(* hands out, and flash_load_env is called; it finds no data section       *)
(* address on the erased flash and installs the defaults.                  *)
(***************************************************************************)
EnvInit ==
    /\ last.op = "none"
    /\ \E fill \in UninitBytes :
          LET before == [Machine(<< >>) EXCEPT
                            !.cache = AsTuple([i \in 1..MemBytes |-> fill])]
              m == flash_load_env(before)
          IN  Commit(m, Call("init", << >>, << >>, before, m))

Running(max) == last.op /= "none" /\ ~halted /\ ncalls < max

SetEnvWith(keys, values, max) ==
    /\ Running(max)
    /\ \E key \in keys, value \in values :
          LET m == flash_set_env(Machine(<< >>), key, value)
          IN  Commit(m, Call("set", key, value, Machine(<< >>), m))

DelEnvWith(keys, max) ==
    /\ Running(max)
    /\ \E key \in keys :
          LET m == flash_del_env(Machine(<< >>), key)
          IN  Commit(m, Call("del", key, << >>, Machine(<< >>), m))

SaveEnvWith(devs, max) ==
    /\ Running(max)
    /\ \E dev \in devs :
          LET m == flash_save_env(Machine(dev))
          IN  Commit(m, Call("save", << >>, << >>, Machine(dev), m))

LoadEnvWith(devs, max) ==
    /\ Running(max)
    /\ \E dev \in devs :
          LET m == flash_load_env(Machine(dev))
          IN  Commit(m, Call("load", << >>, << >>, Machine(dev), m))

SetDefaultWith(devs, max) ==
    /\ Running(max)
    /\ \E dev \in devs :
          LET m == flash_env_set_default(Machine(dev))
          IN  Commit(m, Call("default", << >>, << >>, Machine(dev), m))

(***************************************************************************)
(* Spec: the API on a device that does not fault.                          *)
(***************************************************************************)
SetEnv == SetEnvWith(Keys, Values, MaxCalls)
DelEnv == DelEnvWith(Keys, MaxCalls)
SaveEnv == SaveEnvWith(Sound, MaxCalls)
LoadEnv == LoadEnvWith(Sound, MaxCalls)
SetDefault == SetDefaultWith(Sound, MaxCalls)

Next == EnvInit \/ SetEnv \/ DelEnv \/ SaveEnv \/ LoadEnv \/ SetDefault

Spec == Init /\ [][Next]_vars

(***************************************************************************)
(* SpecFaults: saving on a device whose erase and write calls may fault.   *)
(***************************************************************************)
SaveEnvFaulty == SaveEnvWith(DevSeqs, MaxCalls)

NextFaults == EnvInit \/ DelEnv \/ SaveEnvFaulty \/ LoadEnv

SpecFaults == Init /\ [][NextFaults]_vars

(***************************************************************************)
(* SpecSave: flash_save_env alone, called again and again on a device      *)
(* whose erase and write calls may fault.  flash_save_env does not call    *)
(* memcpy, so one copy order is kept.                                      *)
(***************************************************************************)
MaxSaveCalls == 2

InitSave == Init /\ memcpy_order = "ascending"

SaveEnvAgain == SaveEnvWith(DevSeqs, MaxSaveCalls)

NextSave == EnvInit \/ SaveEnvAgain

SpecSave == InitSave /\ [][NextSave]_vars

(***************************************************************************)
(* SpecUpdate: flash_set_env with values of one byte and values too long   *)
(* for the store, so that the create after the delete is refused.          *)
(***************************************************************************)
MaxUpdateCalls == 2

LongValue == AsTuple([i \in 1..env_total_size |-> 49])

SetEnvLong == SetEnvWith(Keys, { VAL_1, LongValue }, MaxUpdateCalls)

NextUpdate == EnvInit \/ SetEnvLong

SpecUpdate == Init /\ [][NextUpdate]_vars

(***************************************************************************)
(* SpecAppend: flash_set_env with values of one byte and values that fill  *)
(* the store up to the limit of the capacity check of write_env.           *)
(***************************************************************************)
MaxAppendCalls == 2

NearValue == AsTuple([i \in 1..(env_total_size - 2 * WordBytes) |-> 49])

SetEnvNear == SetEnvWith(Keys, { VAL_1, NearValue }, MaxAppendCalls)

NextAppend == EnvInit \/ SetEnvNear

SpecAppend == Init /\ [][NextAppend]_vars

(***************************************************************************)
(* SpecLoop: flash_save_env pass by pass.  last.op = "saving" is the head  *)
(* of the while loop (line 571), "saved" the point after its break (line   *)
(* 619), "save" the return.  env_detail_size and cur_data_addr_bak, taken  *)
(* at entry (lines 565-566), are last.before.detail and last.before.cur.   *)
(* The device chooses the results of each pass as it goes; last.log holds  *)
(* the device calls of the latest step only.                               *)
(***************************************************************************)
MaxLoopCalls == 2

\* one pass of the while loop, lines 572-620
SavePass(m, env_detail_size) ==
    LET c == StoreCrc(m)
        e == flash_erase(c, get_cur_using_data_addr(c),
                         ENV_PARAM_PART_BYTE_SIZE(c.crc) + env_detail_size)
        w == flash_write(e, get_cur_using_data_addr(e),
                         CacheBytes(e, 0, ENV_PARAM_PART_BYTE_SIZE(e.crc)
                                           + env_detail_size))
    IN  IF e.ret = FLASH_ERASE_ERR THEN MoveOn(e, env_detail_size)
        ELSE IF w.ret = FLASH_WRITE_ERR THEN MoveOn(w, env_detail_size)
        ELSE w

InSave == last.op \in { "saving", "saved" }

SaveStep(m, op) ==
    /\ env_cache' = m.cache
    /\ cur_using_data_addr' = m.cur
    /\ flash' = m.flash
    /\ halted' = m.halted
    /\ last' = [last EXCEPT !.op = op, !.ret = m.ret, !.log = m.log]
    /\ UNCHANGED << crc_check, memcpy_order, default_env_set, ncalls >>

SaveEnter ==
    /\ Running(MaxLoopCalls)
    /\ ~InSave
    /\ LET before == Machine(<< >>)
           m == IF UGt(get_env_detail_size(before), Len(env_cache)) THEN Halt(before)
                ELSE before
       IN  Commit(m, Call(IF m.halted THEN "save" ELSE "saving", << >>, << >>, before, m))

\* the loop test of line 571 holds: another pass is made
SaveRoundReady ==
    /\ last.op = "saving"
    /\ ~halted
    /\ SaveFits(Machine(<< >>), last.before.detail)

\* the loop is left, by its break or by its test
SaveLeaveReady ==
    /\ \/ last.op = "saved"
       \/ last.op = "saving" /\ ~SaveFits(Machine(<< >>), last.before.detail)
    /\ ~halted

SaveRound ==
    /\ SaveRoundReady
    /\ \E dev \in DevSeqsOfLen(2) :
          LET m == SavePass(Machine(dev), last.before.detail)
          IN  SaveStep(m, IF m.ret = FLASH_NO_ERR THEN "saved" ELSE "saving")

SaveLeave ==
    /\ SaveLeaveReady
    /\ \E dev \in DevSeqsOfLen(2) :
          SaveStep(SaveFinish(Ret(Machine(dev), last.ret), last.before.detail,
                              last.before.cur),
                   "save")

DelEnvIdle == ~InSave /\ DelEnvWith(Keys, MaxLoopCalls)

NextLoop == EnvInit \/ DelEnvIdle \/ SaveEnter \/ SaveRound \/ SaveLeave

\* the program keeps running: a save that can make a pass makes one, and a
\* save that can leave its loop leaves it (weak fairness of the two steps,
\* written with their guards)
FairLoop ==
    /\ []<>(~SaveRoundReady) \/ []<><<SaveRound>>_vars
    /\ []<>(~SaveLeaveReady) \/ []<><<SaveLeave>>_vars

SpecLoop == InitSave /\ [][NextLoop]_vars /\ FairLoop

(***************************************************************************)
(* SpecMedia: the medium changes under the program.  Right after the data  *)
(* section was written (by flash_env_init or flash_save_env), one byte of  *)
(* the detail part of the data section the system section points at gets   *)
(* another value; variable "b" is set to "1", the cache saved and loaded.  *)
(***************************************************************************)
PersistedDetail(crc, fl) ==
    LET addr == SystemWord(fl)
        end == BytesToWord(<< FlashByte(fl, addr), FlashByte(fl, addr + 1),
                              FlashByte(fl, addr + 2), FlashByte(fl, addr + 3) >>)
    IN  IF addr >= env_start_addr + flash_erase_min_size
           /\ addr < env_start_addr + env_total_size
           /\ end > addr + ENV_PARAM_PART_BYTE_SIZE(crc)
           /\ end <= env_start_addr + env_total_size
        THEN (addr + ENV_PARAM_PART_BYTE_SIZE(crc))..(end - 1)
        ELSE {}

CorruptDetail ==
    /\ Running(MaxMediaCalls)
    /\ last.op \in { "init", "save" }
    /\ \E a \in PersistedDetail(crc_check, flash) :
          LET m == [Machine(<< >>) EXCEPT
                       !.flash = Poke(flash, a - FlashBase, << 255 - FlashByte(flash, a) >>)]
          IN  Commit(m, Call("corrupt", << a >>, << >>, Machine(<< >>), m))

SetEnvMedia == SetEnvWith({ KEY_b }, { VAL_1 }, MaxMediaCalls)
SaveEnvMedia == SaveEnvWith(Sound, MaxMediaCalls)
LoadEnvMedia == LoadEnvWith(Sound, MaxMediaCalls)

NextMedia == EnvInit \/ SetEnvMedia \/ SaveEnvMedia \/ CorruptDetail \/ LoadEnvMedia

SpecMedia == Init /\ [][NextMedia]_vars

(***************************************************************************)
(* A medium whose words are not what the program wrote: the system section *)
(* word, or the first word (the detail end address) of the data section it *)
(* points at, holds some other address before flash_load_env runs.         *)
(***************************************************************************)
MaxWordCalls == 3

MediaWords ==
    { ERASED_WORD,
      env_start_addr - flash_erase_min_size,
      env_start_addr + flash_erase_min_size,
      env_start_addr + flash_erase_min_size + WordBytes,
      env_start_addr + env_total_size,
      env_start_addr + env_total_size + WordBytes }

CorruptWord ==
    /\ Running(MaxWordCalls)
    /\ last.op /= "media"
    /\ \E at \in { env_start_addr, SystemWord(flash) }, w \in MediaWords :
          /\ at >= FlashBase /\ at + WordBytes <= FlashBase + Len(flash)
          /\ LET m == [Machine(<< >>) EXCEPT
                          !.flash = PokeWord(flash, at - FlashBase, w)]
             IN  Commit(m, Call("media", << at >>, << >>, Machine(<< >>), m))

LoadEnvWord == LoadEnvWith(Sound, MaxWordCalls)

NextWord == EnvInit \/ CorruptWord \/ LoadEnvWord

SpecWord == Init /\ [][NextWord]_vars

(***************************************************************************)
(* The claims.  Each is stated on the state reached by the call it is      *)
(* about: last holds the call, what was observable before it, and the call *)
(* before it.                                                              *)
(***************************************************************************)
Now == Machine(<< >>)

ValidKey(key) == key /= << >> /\ ~StrHasChar(key, CH_EQ)

Padded(key, value) == Align4(Len(key) + Len(value) + 2)

\* room left in the cache for records, before the last call
RoomBefore(call) ==
    env_total_size - ENV_PARAM_PART_BYTE_SIZE(crc_check) - call.before.detail

CountKey(records, key) == Cardinality({ i \in 1..Len(records) : records[i].key = key })

DefaultKeys == { default_env_set[i].key : i \in 1..Len(default_env_set) }

DefaultValue(key) ==
    IF key \in DefaultKeys
    THEN default_env_set[CHOOSE i \in 1..Len(default_env_set) :
                            default_env_set[i].key = key].value
    ELSE NOT_FOUND

\* the device calls of a save on data sections, and on the system section
IsSystemCall(c) == c.addr = env_start_addr
IsDataCall(c) == c.addr /= env_start_addr
DataCalls(log) == SelectSeq(log, IsDataCall)
SystemCalls(log) == SelectSeq(log, IsSystemCall)

Faulted(c) == c.result /= FLASH_NO_ERR

\* the first erase of a save faulted, or its first write did
FirstAttemptFaulted(log) ==
    LET d == DataCalls(log)
    IN  /\ d /= << >>
        /\ \/ Faulted(d[1])
           \/ Len(d) >= 2 /\ d[2].call = "write" /\ Faulted(d[2])

\* the data section address after the first attempt of a save faulted: that of
\* the next attempt, or, when there is none, the one the save returned with
SlotAfterFirstFault(log) ==
    LET d == DataCalls(log)
        n == IF Faulted(d[1]) THEN 2 ELSE 3
    IN  IF Len(d) >= n THEN d[n].addr ELSE cur_using_data_addr

\* some data section took the erase and the write
SomeSlotAccepted(log) ==
    \E i \in 1..Len(log) :
        IsDataCall(log[i]) /\ log[i].call = "write" /\ ~Faulted(log[i])

\* C1: for a non-empty key without '=' and a non-empty value whose padded record
\* fits in the remaining capacity, flash_set_env(key, value) followed at once by
\* flash_get_env(key) returns exactly value.
C1_SetThenGet ==
    (/\ last.op = "set"
     /\ ValidKey(last.key)
     /\ last.value /= << >>
     /\ last.before.detail >= 0
     /\ Padded(last.key, last.value) <= RoomBefore(last))
    => (~halted /\ flash_get_env(Now, last.key) = last.value)

\* C2: after a save that returned success, with no device fault or media change
\* in between, a load reaches Ready without installing the defaults, and
\* flash_get_env returns for every key what it returned just before the save.
C2_SaveThenLoad ==
    (/\ last.op = "load"
     /\ last.prev.op = "save"
     /\ last.prev.ret = FLASH_NO_ERR)
    => (/\ ~halted
        /\ ~last.defaulted
        /\ \A k \in ProbeKeys : flash_get_env(Now, k) = last.prev.before.gets[k])

\* C3: whenever flash_save_env returns success, the system section word on the
\* flash equals the address of the data section just written, also when the
\* save moved on to a later data section after a fault.
C3_PointerIsActiveSlot ==
    (last.op = "save" /\ ~halted /\ last.ret = FLASH_NO_ERR)
    => SystemWord(flash) = cur_using_data_addr

\* C3 on a device that serves the system section: a save that returned success
\* without a fault on the system section leaves the system section word equal
\* to the address of the data section just written.
C3_PointerIsActiveSlot_SystemSound ==
    (/\ last.op = "save"
     /\ ~halted
     /\ last.ret = FLASH_NO_ERR
     /\ \A i \in 1..Len(last.log) : IsSystemCall(last.log[i]) => ~Faulted(last.log[i]))
    => SystemWord(flash) = cur_using_data_addr

\* C4 as the spec states it: when the first attempt of a save faults, the data
\* section address and the cached detail end address advance by exactly
\* ceil(detailSize / erase_unit_size) * erase_unit_size.
C4_StrideIsCeil ==
    (last.op = "save" /\ ~halted /\ FirstAttemptFaulted(last.log))
    => (/\ SlotAfterFirstFault(last.log)
              = last.before.cur + MoveOffset_Ceil(last.before.detail)
        /\ get_env_detail_end_addr(Now) - last.before.end
              = cur_using_data_addr - last.before.cur)

\* C4, amended: when the first attempt of a save faults, the data section address
\* and the cached detail end address advance by exactly
\* (floor(detailSize / erase_unit_size) + 1) * erase_unit_size: one erase unit
\* more than the rounded-up size when detailSize is a multiple of the erase unit.
C4_StrideIsFloorPlusOne ==
    (last.op = "save" /\ ~halted /\ FirstAttemptFaulted(last.log))
    => (/\ SlotAfterFirstFault(last.log)
              = last.before.cur
                  + (last.before.detail \div flash_erase_min_size + 1)
                        * flash_erase_min_size
        /\ get_env_detail_end_addr(Now) - last.before.end
              = cur_using_data_addr - last.before.cur)

\* C4 witness: a save of a detail part of one whole erase unit whose first erase
\* faulted and which then succeeded at the next data section.
C4_Witness ==
    /\ last.op = "save"
    /\ ~halted
    /\ FirstAttemptFaulted(last.log)
    /\ last.before.detail = flash_erase_min_size
    /\ last.ret = FLASH_NO_ERR
    /\ cur_using_data_addr = last.before.cur + 2 * flash_erase_min_size

C6_SaveResult ==
    (last.op = "save" /\ ~halted)
    => last.ret = IF SomeSlotAccepted(last.log) THEN FLASH_NO_ERR ELSE FLASH_ENV_FULL

\* C6 witness: a save that returned success after a fault on an earlier data
\* section and a fault on the system section.
C6_Witness ==
    /\ last.op = "save"
    /\ ~halted
    /\ last.ret = FLASH_NO_ERR
    /\ \E i \in 1..Len(last.log) : IsDataCall(last.log[i]) /\ Faulted(last.log[i])
    /\ \E i \in 1..Len(last.log) : IsSystemCall(last.log[i]) /\ Faulted(last.log[i])

\* C7: flash_set_env(key, "") removes key: the next flash_get_env(key) returns
\* NULL, also when other keys hold key as a substring.
C7_SetEmptyRemoves ==
    (last.op = "set" /\ ValidKey(last.key) /\ last.value = << >>)
    => (~halted /\ flash_get_env(Now, last.key) = NOT_FOUND)

\* C8: after two successive flash_set_env calls on the same key, absent before
\* them, with different non-empty values, the detail part holds exactly one
\* record of that key, and flash_get_env_used_size() has grown by the padded
\* length of one record, that of the last value.
C8_SetNeverDuplicates ==
    (/\ last.op = "set"
     /\ last.prev.op = "set"
     /\ last.key = last.prev.key
     /\ ValidKey(last.key)
     /\ last.value /= << >>
     /\ last.prev.value /= << >>
     /\ last.value /= last.prev.value
     /\ CountKey(last.prev.before.records, last.key) = 0
     /\ last.prev.before.detail >= 0
     /\ Padded(last.key, last.prev.value) + Padded(last.key, last.value)
           <= RoomBefore(last.prev))
    => (/\ ~halted
        /\ CountKey(Records(Now), last.key) = 1
        /\ flash_get_env_used_size(Now) - last.prev.before.used
              = Padded(last.key, last.value))

\* C9: after init followed by flash_env_set_default, flash_get_env(k) returns the
\* default value for every key k of the default set and NULL for every other
\* key, also for substrings of a default key or value.
C9_DefaultsAndNothingElse ==
    (last.op = "default" /\ last.prev.op = "init")
    => (~halted /\ \A k \in ProbeKeys : flash_get_env(Now, k) = DefaultValue(k))

\* C10: with CRC enabled, if one byte of the persisted detail part of the active
\* data section is changed before a load, the load falls back to the defaults:
\* the distinct keys of the cache are exactly those of the default set, as many
\* as the default set has, and no record that is not a default survives.
C10_CorruptionFallsBack ==
    (crc_check /\ last.op = "load" /\ last.prev.op = "corrupt")
    => (/\ ~halted
        /\ last.defaulted
        /\ RecordKeys(Now) = DefaultKeys
        /\ Cardinality(RecordKeys(Now)) = Len(default_env_set)
        /\ \A i \in 1..Len(Records(Now)) :
              \E j \in 1..Len(default_env_set) : Records(Now)[i] = default_env_set[j])

\* keys handed to create_env: the probed keys, the empty key, and a key with '='
KEY_empty == << >>
KEY_a_eq == << 97, CH_EQ >>
CreateKeys == ProbeKeys \cup { KEY_empty, KEY_a_eq }

\* C11: create_env(key, value) returns FLASH_ENV_NAME_ERR when key is empty or
\* contains '=', and otherwise returns FLASH_ENV_NAME_EXIST exactly when the
\* detail part holds a record whose key is key (not when key merely occurs
\* inside another record).
C11_CreateErrors ==
    (last.op /= "none" /\ ~halted)
    => \A key \in CreateKeys :
          LET m == create_env(Now, key, VAL_1)
          IN  /\ ~m.halted
              /\ IF ~ValidKey(key) THEN m.ret = FLASH_ENV_NAME_ERR
                 ELSE (m.ret = FLASH_ENV_NAME_EXIST)
                          <=> (CountKey(Records(Now), key) >= 1)

\* C12: when the system section word read by flash_load_env is 0xFFFFFFFF or
\* lies outside [env_start_addr, env_start_addr + env_total_size), the load
\* installs the defaults and does not take that word as the address of the
\* data section in use.
C12_PointerOutOfRange ==
    (/\ last.op = "load"
     /\ \/ last.before.system = ERASED_WORD
        \/ ULt(last.before.system, env_start_addr)
        \/ UGe(last.before.system, env_start_addr + env_total_size))
    => /\ ~halted
       /\ last.defaulted
       /\ cur_using_data_addr /= last.before.system

\* C13: after flash_load_env the cached detail end address is not below the
\* start of the detail part, whatever the medium holds: an end address word
\* outside the valid region makes the load install the defaults.
C13_EndNotBelowDetail ==
    last.op = "load"
    => /\ ~halted
       /\ UGe(get_env_detail_end_addr(Now), get_env_detail_addr(Now))

\* C14: in every state reached from an initialised store by flash_set_env,
\* flash_del_env and flash_save_env, with or without device faults, the used
\* size is at most the total size:
\* detail end address - env_start_addr <= env_total_size.
C14_UsedWithinTotal ==
    (last.op \in { "init", "del", "save" } /\ last.prev.op \in { "none", "init", "del", "save" }
     /\ ~halted)
    => flash_get_env_used_size(Now) <= flash_get_env_total_size

\* C15: flash_del_env on a record that find_env finds removes exactly that
\* record: the detail end address goes down by the padded length of the record
\* and the records of the detail part afterwards are those before it without
\* the record found, in the same order; in both builds and for every record
\* length.  (Checked where memcpy copies upwards, the order in which a copy
\* onto lower addresses keeps its source intact.)
C15_DelCompacts ==
    (last.op = "del" /\ last.ret = FLASH_NO_ERR /\ ~halted /\ memcpy_order = "ascending")
    => LET recs == last.before.records
           Str(r) == r.key \o << CH_EQ >> \o r.value
           Hit(r) == LET q == strstr(Str(r), 0, last.key)
                     IN  q /= NULL /\ Peek(Str(r), q + Len(last.key)) = CH_EQ
           hits == { i \in 1..Len(recs) : Hit(recs[i]) }
           at == CHOOSE i \in hits : \A j \in hits : i <= j
       IN  /\ hits /= {}
           /\ get_env_detail_end_addr(Now)
                 = last.before.end - Padded(recs[at].key, recs[at].value)
           /\ Records(Now) = SubSeq(recs, 1, at - 1) \o SubSeq(recs, at + 1, Len(recs))

\* C16: each relocation of flash_save_env moves the data section to an
\* address that is a multiple of the erase unit and whose section shares no
\* erase unit with the section of the attempt that just faulted.
C16_RelocationClearsFault ==
    last.op = "save"
    => LET d == DataCalls(last.log)
       IN  \A i \in 1..(Len(d) - 1) :
              (Faulted(d[i]) /\ d[i + 1].call = "erase")
              => /\ d[i + 1].addr % flash_erase_min_size = 0
                 /\ EraseUnit(d[i + 1].addr) > EraseUnit(d[i].addr + d[i].size - 1)

\* C17: flash_set_env is not atomic on update: when the key has a record, the
\* delete succeeds and the create is refused with FLASH_ENV_FULL, the set
\* returns FLASH_ENV_FULL and the key has no record and no value any more (the
\* old record is not put back).
C17_UpdateNotAtomic ==
    (/\ last.op = "set"
     /\ last.value /= << >>
     /\ CountKey(last.before.records, last.key) >= 1
     /\ last.ret = FLASH_ENV_FULL)
    => /\ ~halted
       /\ flash_get_env(Now, last.key) = NOT_FOUND
       /\ CountKey(Records(Now), last.key) = 0
       /\ get_env_detail_size(Now) < last.before.detail

C17_Witness ==
    /\ last.op = "set"
    /\ last.value = LongValue
    /\ CountKey(last.before.records, last.key) = 1
    /\ last.before.gets[last.key] = VAL_1
    /\ last.ret = FLASH_ENV_FULL
    /\ flash_get_env(Now, last.key) = NOT_FOUND

\* C18: flash_save_env terminates under every pattern of erase and write
\* faults: a save that has entered its loop returns, each faulted pass having
\* moved the data section address on.
C18_SaveTerminates == (last.op = "saving") ~> (last.op = "save")

\* a save that left the loop because no further data section fits
C18_Witness ==
    /\ last.op = "save"
    /\ last.ret = FLASH_ENV_FULL
    /\ cur_using_data_addr > last.before.cur
    /\ ~SaveFits(Now, last.before.detail)

\* C19: after flash_save_env returned FLASH_ENV_FULL, the next flash_load_env,
\* on a device that does not fault, starts the store afresh: the data section
\* address is env_start_addr + erase unit, the cache holds the default set,
\* the data section on the flash holds what the cache holds, and the system
\* section word is that first address.
C19_LoadAfterFull ==
    (last.op = "load" /\ last.prev.op = "save" /\ last.prev.ret = FLASH_ENV_FULL)
    => /\ ~halted
       /\ cur_using_data_addr = env_start_addr + flash_erase_min_size
       /\ SystemWord(flash) = env_start_addr + flash_erase_min_size
       /\ Records(Now) = default_env_set
       /\ LET size == ENV_PARAM_PART_BYTE_SIZE(crc_check) + get_env_detail_size(Now)
          IN  flash_read(Now, cur_using_data_addr, size) = CacheBytes(Now, 0, size)

\* C20: flash_set_env(key, value) and flash_del_env(key) leave every other
\* key as it was: for every key k2 other than key, flash_get_env(k2) returns
\* after the call what it returned before it, whatever the call returned.
C20_OtherKeysUntouched ==
    (last.op \in { "set", "del" } /\ ~halted)
    => \A k2 \in ProbeKeys \ { last.key } :
          flash_get_env(Now, k2) = last.before.gets[k2]

\* C21: every erase and every write that flash_save_env issues for the data
\* section covers bytes inside the store and after the system section: from
\* env_start_addr + erase unit up to, not including,
\* env_start_addr + env_total_size; in both builds.
C21_DataCallsInsideStore ==
    last.op = "save"
    => LET d == DataCalls(last.log)
       IN  \A i \in 1..Len(d) :
              /\ d[i].addr >= env_start_addr + flash_erase_min_size
              /\ d[i].addr + d[i].size <= env_start_addr + env_total_size

\* C22: an append never writes past the end of the cache: whenever write_env
\* passes its capacity check and copies a record, the parameters part, the
\* detail part and the record together fit in env_total_size bytes, the size
\* of the cache; in both builds.
C22_AppendWithinCache ==
    (last.op = "set" /\ last.value /= << >> /\ last.ret = FLASH_NO_ERR /\ ~halted)
    => /\ ~last.overrun
       /\ ENV_PARAM_PART_BYTE_SIZE(crc_check) + get_env_detail_size(Now) <= env_total_size

\* C23: flash_save_env does not change the variables held in RAM: under every
\* pattern of erase and write faults and whatever it returns, the detail size
\* and the records of the detail part are after the call what they were
\* before it, flash_get_env returns the same for every key, and the data
\* section address and the detail end address have moved by the same amount.
C23_SaveKeepsVariables ==
    last.op = "save"
    => /\ get_env_detail_size(Now) = last.before.detail
       /\ Records(Now) = last.before.records
       /\ \A k \in ProbeKeys : flash_get_env(Now, k) = last.before.gets[k]
       /\ get_env_detail_end_addr(Now) - last.before.end
             = cur_using_data_addr - last.before.cur

\* a save that moved the data section and returned with the variables in place
C23_Witness ==
    /\ last.op = "save"
    /\ ~halted
    /\ FirstAttemptFaulted(last.log)
    /\ cur_using_data_addr > last.before.cur
    /\ get_env_detail_end_addr(Now) > last.before.end
    /\ last.before.records /= << >>
    /\ Records(Now) = last.before.records
=============================================================================
